---- MODULE Spec2Model ----
(***************************************************************************)
(* Rules engine of the two-player settlement game: core/board.py (Board),  *)
(* core/player.py (Player) and core/game.py (Game).  The variables are the *)
(* fields of Game, of its Board and of its two Players; the methods are    *)
(* operators on the record G of these fields, and every action kind of     *)
(* Game.advance_one_action is one action of the model.                     *)
(***************************************************************************)
EXTENDS Integers, Sequences, FiniteSets, TLC

VARIABLES
    occupant,                 \* Node.occupant for every node of Board.nodes
    owner,                    \* Road.owner for every road of Board.roads
    resources,                \* Player.resources of p1 and p2
    built,                    \* Player.built of p1 and p2
    current_player_id,        \* Game.current_player_id
    turn_number,              \* Game.turn_number
    last_roll,                \* Game.last_roll
    initial_buildings_placed, \* Game.initial_buildings_placed
    longest_road_owner,       \* Game.longest_road_owner
    longest_road_length,      \* Game.longest_road_length
    finished,                 \* Game.finished
    winner,                   \* Game.winner
    horizon,                  \* the turn number at which the exploration stops
    free_builds,              \* builds of the watched slot that deducted nothing
    turn_rolls,               \* start_turn calls that rolled since the last end_turn
    pc,                       \* where a start_turn call taken draw by draw stands
    roll_stack,               \* the sevens held by the roll_dice frames in progress
    action,                   \* the action_type of the last call
    success                   \* the value the last call returned

vars == <<occupant, owner, resources, built, current_player_id, turn_number,
          last_roll, initial_buildings_placed, longest_road_owner,
          longest_road_length, finished, winner, horizon, free_builds,
          turn_rolls, pc, roll_stack, action, success>>

game_vars == <<occupant, owner, resources, built, current_player_id, turn_number,
               last_roll, initial_buildings_placed, longest_road_owner,
               longest_road_length, finished, winner>>

-----------------------------------------------------------------------------
(* Bounds of the exploration. *)

\* start_turn is explored for this many turns past the initial turn number
Horizon == 2

\* production and trades are explored while no resource count exceeds this
MaxRes == 3

\* trades are explored while no resource count falls below minus this
MaxDebt == 4

\* roll_dice is explored up to this many re-rolled sevens
MaxRerolls == 1

\* the number of nested roll_dice frames the interpreter allows (1000 less
\* the frames of the caller by default)
RecursionLimit == 3

\* the driven game is explored up to this turn number
MaxSlot == 5

-----------------------------------------------------------------------------
(* Program constants: core/player.py *)

MAX_VILLAGES == 5

MAX_CITIES == 4

MAX_ROADS == 15

Players == {1, 2}

Resources == {"brick", "wood", "sheep", "wheat", "ore"}

Cost(b, wo, s, wh, o) ==
    [r \in Resources |->
        CASE r = "brick" -> b [] r = "wood" -> wo [] r = "sheep" -> s
          [] r = "wheat" -> wh [] r = "ore" -> o]

SETTLEMENT_COST == Cost(1, 1, 1, 1, 0)

CITY_COST == Cost(0, 0, 0, 2, 3)

ROAD_COST == Cost(1, 1, 0, 0, 0)

-----------------------------------------------------------------------------
(* The board loaded by Board.load_from_json: a strip of seven hexes.       *)
(* Top row nodes 1..15, bottom row nodes 16..30; roads 1..14 join          *)
(* consecutive top nodes, roads 15..28 consecutive bottom nodes, roads     *)
(* 29..36 join the odd top node 2j-1 to the bottom node 2j+14.             *)

Nodes == 1..30

Roads == 1..36

RoadNodes(road_id) ==
    IF road_id <= 14 THEN <<road_id, road_id + 1>>
    ELSE IF road_id <= 28 THEN <<road_id + 1, road_id + 2>>
    ELSE <<2 * (road_id - 28) - 1, 2 * (road_id - 28) + 14>>

adjacent_roads ==
    [n \in Nodes |-> {r \in Roads : RoadNodes(r)[1] = n \/ RoadNodes(r)[2] = n}]

AdjacentRoads(node_id) == adjacent_roads[node_id]

HexNodes(k) == <<2*k - 1, 2*k, 2*k + 1, 2*k + 14, 2*k + 15, 2*k + 16>>

Hexes ==
    << [resource |-> "brick", dice_number |-> 2,  nodes |-> HexNodes(1)],
       [resource |-> "wood",  dice_number |-> 12, nodes |-> HexNodes(2)],
       [resource |-> "sheep", dice_number |-> 2,  nodes |-> HexNodes(3)],
       [resource |-> "wheat", dice_number |-> 12, nodes |-> HexNodes(4)],
       [resource |-> "ore",   dice_number |-> 2,  nodes |-> HexNodes(5)],
       [resource |-> "wheat", dice_number |-> 8,  nodes |-> HexNodes(6)],
       [resource |-> "ore",   dice_number |-> 12, nodes |-> HexNodes(7)] >>

-----------------------------------------------------------------------------
(* core/board.py: legality predicates.  g is the game record; the board    *)
(* reads g.occupant and g.owner.                                           *)

(* Faulty variant of settlement_is_legal: a placement-phase settlement may *)
(* go on an occupied node.                                                 *)
settlement_is_legal_anywhere(g, node_id, player, start_of_the_game) ==
    IF start_of_the_game
    THEN TRUE
    ELSE IF g.occupant[node_id] # 0
         THEN FALSE
         ELSE \E road_id \in AdjacentRoads(node_id) : g.owner[road_id] = player

(* Faulty variant of settlement_is_legal: after the placement phase a road *)
(* of either player next to the node is enough.                            *)
settlement_is_legal_by_any_road(g, node_id, player, start_of_the_game) ==
    IF start_of_the_game
    THEN g.occupant[node_id] = 0
    ELSE IF g.occupant[node_id] # 0
         THEN FALSE
         ELSE \E road_id \in AdjacentRoads(node_id) : g.owner[road_id] # 0

settlement_is_legal(g, node_id, player, start_of_the_game) ==
    IF start_of_the_game
    THEN g.occupant[node_id] = 0
    ELSE IF g.occupant[node_id] # 0
         THEN FALSE
         ELSE \E road_id \in AdjacentRoads(node_id) : g.owner[road_id] = player

(* Faulty variant of city_is_legal: the player's own city is accepted too. *)
city_is_legal_on_own_city(g, node_id, player) ==
    g.occupant[node_id] \in {player, player + 2}

city_is_legal(g, node_id, player) == g.occupant[node_id] = player

(* Faulty variant of road_is_legal: the check that the road is unowned is  *)
(* missing.                                                                *)
road_is_legal_ignoring_owner(g, road_id, player) ==
    LET node_a == RoadNodes(road_id)[1]
        node_b == RoadNodes(road_id)[2]
    IN  IF g.occupant[node_a] = player \/ g.occupant[node_b] = player
        THEN TRUE
        ELSE \E adj_road_id \in AdjacentRoads(node_a) \cup AdjacentRoads(node_b) :
                 g.owner[adj_road_id] = player

road_is_legal(g, road_id, player) ==
    LET node_a == RoadNodes(road_id)[1]
        node_b == RoadNodes(road_id)[2]
    IN  IF g.owner[road_id] # 0
        THEN FALSE
        ELSE IF g.occupant[node_a] = player \/ g.occupant[node_b] = player
             THEN TRUE
             ELSE \E adj_road_id \in AdjacentRoads(node_a) \cup AdjacentRoads(node_b) :
                      g.owner[adj_road_id] = player

(* core/board.py: the legal targets of a player, as the set of the ids the *)
(* method lists.                                                           *)

list_legal_settlement_spots(g, player, start_of_the_game) ==
    {node_id \in Nodes : settlement_is_legal(g, node_id, player, start_of_the_game)}

list_legal_city_spots(g, player) ==
    {node_id \in Nodes : city_is_legal(g, node_id, player)}

list_legal_road_spots(g, player) ==
    {road_id \in Roads : road_is_legal(g, road_id, player)}

(* core/board.py: mutators. *)

set_settlement(g, node_id, player) ==
    [g EXCEPT !.occupant[node_id] = player]

(* Faulty variant of set_city: a settlement of either player is upgraded.  *)
set_city_of_any_settlement(g, node_id, player) ==
    IF g.occupant[node_id] \in {1, 2}
    THEN [g EXCEPT !.occupant[node_id] = @ + 2]
    ELSE g

set_city(g, node_id, player) ==
    IF g.occupant[node_id] = player
    THEN [g EXCEPT !.occupant[node_id] = @ + 2]
    ELSE g

set_road(g, road_id, player) ==
    [g EXCEPT !.owner[road_id] = player]

(* core/board.py: production events of one hex, node by node, then of all  *)
(* hexes in iteration order.                                               *)

(* Faulty variant of HexProduction: a city produces one unit, as a         *)
(* settlement does.                                                        *)
RECURSIVE HexProduction_city_as_settlement(_, _, _)
HexProduction_city_as_settlement(g, hex_tile, i) ==
    IF i > Len(hex_tile.nodes) THEN <<>>
    ELSE LET occ == g.occupant[hex_tile.nodes[i]]
             ev  == IF occ = 0 THEN <<>>
                    ELSE IF occ \in {1, 2} THEN << <<occ, hex_tile.resource>> >>
                    ELSE IF occ \in {3, 4}
                         THEN << <<occ - 2, hex_tile.resource>> >>
                    ELSE <<>>
         IN  ev \o HexProduction_city_as_settlement(g, hex_tile, i + 1)

RECURSIVE HexProduction(_, _, _)
HexProduction(g, hex_tile, i) ==
    IF i > Len(hex_tile.nodes) THEN <<>>
    ELSE LET occ == g.occupant[hex_tile.nodes[i]]
             ev  == IF occ = 0 THEN <<>>
                    ELSE IF occ \in {1, 2} THEN << <<occ, hex_tile.resource>> >>
                    ELSE IF occ \in {3, 4}
                         THEN << <<occ - 2, hex_tile.resource>>,
                                 <<occ - 2, hex_tile.resource>> >>
                    ELSE <<>>
         IN  ev \o HexProduction(g, hex_tile, i + 1)

RECURSIVE ProductionFrom(_, _, _)
ProductionFrom(g, dice_roll, h) ==
    IF h > Len(Hexes) THEN <<>>
    ELSE (IF Hexes[h].dice_number # dice_roll THEN <<>>
          ELSE HexProduction(g, Hexes[h], 1))
         \o ProductionFrom(g, dice_roll, h + 1)

get_production_for_roll(g, dice_roll) == ProductionFrom(g, dice_roll, 1)

-----------------------------------------------------------------------------
(* core/player.py *)

add_resource(g, player, resource) ==
    [g EXCEPT !.resources[player][resource] = @ + 1]

has_resources(g, player, cost) ==
    \A r \in Resources : cost[r] > 0 => g.resources[player][r] >= cost[r]

deduct_resources(g, player, cost) ==
    [g EXCEPT !.resources[player] = [r \in Resources |-> @[r] - cost[r]]]

(* Faulty variant of can_build_settlement: the cap test is off by one. *)
can_build_settlement_past_cap(g, player, node_id, free_settlement) ==
    IF g.built[player].settlements > MAX_VILLAGES THEN FALSE
    ELSE IF ~settlement_is_legal(g, node_id, player, free_settlement) THEN FALSE
    ELSE IF ~free_settlement THEN has_resources(g, player, SETTLEMENT_COST)
    ELSE TRUE

can_build_settlement(g, player, node_id, free_settlement) ==
    IF g.built[player].settlements >= MAX_VILLAGES THEN FALSE
    ELSE IF ~settlement_is_legal(g, node_id, player, free_settlement) THEN FALSE
    ELSE IF ~free_settlement THEN has_resources(g, player, SETTLEMENT_COST)
    ELSE TRUE

can_build_city(g, player, node_id) ==
    IF g.built[player].cities >= MAX_CITIES THEN FALSE
    ELSE IF ~city_is_legal(g, node_id, player) THEN FALSE
    ELSE has_resources(g, player, CITY_COST)

can_build_road(g, player, road_id, free_road) ==
    IF g.built[player].roads >= MAX_ROADS THEN FALSE
    ELSE IF ~road_is_legal(g, road_id, player) THEN FALSE
    ELSE IF ~free_road THEN has_resources(g, player, ROAD_COST)
    ELSE TRUE

(* The build methods return the pair (state after the call, return value). *)

(* Faulty variant of build_settlement: a free settlement is placed but not *)
(* counted.                                                                *)
build_settlement_free_uncounted(g, player, node_id, free_settlement) ==
    IF ~can_build_settlement(g, player, node_id, free_settlement)
    THEN [g |-> g, ok |-> FALSE]
    ELSE LET g1 == IF ~free_settlement
                   THEN deduct_resources(g, player, SETTLEMENT_COST) ELSE g
             g2 == set_settlement(g1, node_id, player)
             g3 == IF ~free_settlement
                   THEN [g2 EXCEPT !.built[player].settlements = @ + 1] ELSE g2
         IN  [g |-> g3, ok |-> TRUE]

build_settlement(g, player, node_id, free_settlement) ==
    IF ~can_build_settlement(g, player, node_id, free_settlement)
    THEN [g |-> g, ok |-> FALSE]
    ELSE LET g1 == IF ~free_settlement
                   THEN deduct_resources(g, player, SETTLEMENT_COST) ELSE g
             g2 == set_settlement(g1, node_id, player)
             g3 == [g2 EXCEPT !.built[player].settlements = @ + 1]
         IN  [g |-> g3, ok |-> TRUE]

(* Faulty variant of build_city: the settlement count is not decremented. *)
build_city_keeping_settlement(g, player, node_id) ==
    IF ~can_build_city(g, player, node_id)
    THEN [g |-> g, ok |-> FALSE]
    ELSE LET g1 == deduct_resources(g, player, CITY_COST)
             g2 == set_city(g1, node_id, player)
             g3 == [g2 EXCEPT !.built[player].cities = @ + 1]
         IN  [g |-> g3, ok |-> TRUE]

build_city(g, player, node_id) ==
    IF ~can_build_city(g, player, node_id)
    THEN [g |-> g, ok |-> FALSE]
    ELSE LET g1 == deduct_resources(g, player, CITY_COST)
             g2 == set_city(g1, node_id, player)
             g3 == [g2 EXCEPT !.built[player].cities = @ + 1]
             g4 == [g3 EXCEPT !.built[player].settlements = @ - 1]
         IN  [g |-> g4, ok |-> TRUE]

(* Faulty variant of build_road: the cost is deducted before the build is  *)
(* validated.                                                              *)
build_road_deducting_first(g, player, road_id, free_road) ==
    LET g0 == IF ~free_road THEN deduct_resources(g, player, ROAD_COST) ELSE g
    IN  IF ~can_build_road(g, player, road_id, free_road)
        THEN [g |-> g0, ok |-> FALSE]
        ELSE LET g2 == set_road(g0, road_id, player)
                 g3 == [g2 EXCEPT !.built[player].roads = @ + 1]
             IN  [g |-> g3, ok |-> TRUE]

(* Faulty variant of build_road: a free road is paid for as well. *)
build_road_always_paying(g, player, road_id, free_road) ==
    IF ~can_build_road(g, player, road_id, free_road)
    THEN [g |-> g, ok |-> FALSE]
    ELSE LET g1 == deduct_resources(g, player, ROAD_COST)
             g2 == set_road(g1, road_id, player)
             g3 == [g2 EXCEPT !.built[player].roads = @ + 1]
         IN  [g |-> g3, ok |-> TRUE]

build_road(g, player, road_id, free_road) ==
    IF ~can_build_road(g, player, road_id, free_road)
    THEN [g |-> g, ok |-> FALSE]
    ELSE LET g1 == IF ~free_road
                   THEN deduct_resources(g, player, ROAD_COST) ELSE g
             g2 == set_road(g1, road_id, player)
             g3 == [g2 EXCEPT !.built[player].roads = @ + 1]
         IN  [g |-> g3, ok |-> TRUE]

(* core/player.py: query methods. *)

(* Faulty variant of get_available_settlement_spots: the cap on the        *)
(* settlements is not looked at.                                           *)
get_available_settlement_spots_past_cap(g, player, free_settlement) ==
    IF has_resources(g, player, SETTLEMENT_COST) \/ free_settlement
    THEN list_legal_settlement_spots(g, player, free_settlement)
    ELSE {}

get_available_settlement_spots(g, player, free_settlement) ==
    IF g.built[player].settlements >= MAX_VILLAGES
    THEN {}
    ELSE IF has_resources(g, player, SETTLEMENT_COST) \/ free_settlement
         THEN list_legal_settlement_spots(g, player, free_settlement)
         ELSE {}

get_available_city_spots(g, player) ==
    IF g.built[player].cities >= MAX_CITIES
    THEN {}
    ELSE IF has_resources(g, player, CITY_COST)
         THEN list_legal_city_spots(g, player)
         ELSE {}

get_available_road_spots(g, player, free_road) ==
    IF g.built[player].roads >= MAX_ROADS
    THEN {}
    ELSE IF has_resources(g, player, ROAD_COST) \/ free_road
         THEN list_legal_road_spots(g, player)
         ELSE {}

-----------------------------------------------------------------------------
(* core/game.py *)

get_player(player_id) == IF player_id = 1 THEN 1 ELSE 2

switch_player(g) ==
    [g EXCEPT !.current_player_id = IF g.current_player_id = 1 THEN 2 ELSE 1]

(* random.randint(1, 6) sampled on the two extreme faces: the totals that  *)
(* can come up are 2, 7 and 12.                                            *)
DieFaces == {1, 6}

DicePairs == {<<die1, die2>> : die1 \in DieFaces, die2 \in DieFaces}

(* roll_dice: every list the recursion can return with at most n re-rolls: *)
(* pairs summing to 7, then one pair that does not.                        *)
RECURSIVE roll_dice(_)
roll_dice(n) ==
    {<<p>> : p \in {q \in DicePairs : q[1] + q[2] # 7}}
    \cup (IF n = 0 THEN {}
          ELSE {<<p>> \o rest : p \in {q \in DicePairs : q[1] + q[2] = 7},
                                rest \in roll_dice(n - 1)})

RECURSIVE AddAll(_, _, _)
AddAll(g, production_events, i) ==
    IF i > Len(production_events) THEN g
    ELSE AddAll(add_resource(g, get_player(production_events[i][1]),
                             production_events[i][2]),
                production_events, i + 1)

(* Faulty variant of distribute_resources: the production is that of the   *)
(* first pair rolled.                                                      *)
distribute_resources_first_pair(g, roll) ==
    LET total == roll[1][1] + roll[1][2]
    IN  AddAll(g, get_production_for_roll(g, total), 1)

distribute_resources(g, roll) ==
    LET total == roll[Len(roll)][1] + roll[Len(roll)][2]
    IN  AddAll(g, get_production_for_roll(g, total), 1)

(* Faulty variant of handle_bank_trade: a trade the player cannot pay for  *)
(* is refused.                                                             *)
handle_bank_trade_if_affordable(g, player, offered, wanted, cost) ==
    IF g.resources[player][offered] < cost
    THEN [g |-> g, ok |-> FALSE]
    ELSE LET g1 == [g EXCEPT !.resources[player][offered] = @ - cost]
             g2 == [g1 EXCEPT !.resources[player][wanted] = @ + 1]
         IN  [g |-> g2, ok |-> TRUE]

(* Faulty variant of handle_bank_trade: the offered resource is taken from *)
(* the other player.                                                       *)
handle_bank_trade_paid_by_opponent(g, player, offered, wanted, cost) ==
    LET g1 == [g EXCEPT !.resources[3 - player][offered] = @ - cost]
        g2 == [g1 EXCEPT !.resources[player][wanted] = @ + 1]
    IN  [g |-> g2, ok |-> TRUE]

handle_bank_trade(g, player, offered, wanted, cost) ==
    LET g1 == [g EXCEPT !.resources[player][offered] = @ - cost]
        g2 == [g1 EXCEPT !.resources[player][wanted] = @ + 1]
    IN  [g |-> g2, ok |-> TRUE]

(* Faulty variant of turn_start: the first turn after the placement phase *)
(* rolls no dice.                                                          *)
turn_start_rolling_late(g, roll) ==
    LET g1 == [g EXCEPT !.turn_number = @ + 1]
    IN  IF g1.turn_number > 4
        THEN [distribute_resources(g1, roll) EXCEPT !.last_roll = roll]
        ELSE g1

turn_start(g, roll) ==
    LET g1 == [g EXCEPT !.turn_number = @ + 1]
    IN  IF g1.turn_number >= 4
        THEN [distribute_resources(g1, roll) EXCEPT !.last_roll = roll]
        ELSE g1

(* Faulty variant of perform_build_action: outside the placement phase    *)
(* the free flags default to True.                                         *)
perform_build_action_free_by_default(g, action_type, target_id) ==
    LET current_player == get_player(g.current_player_id)
        placing == g.turn_number < 4
    IN  IF action_type = "build_settlement"
        THEN LET free_village ==
                     IF placing
                     THEN g.initial_buildings_placed[g.turn_number][1] = FALSE
                     ELSE TRUE
                 b == build_settlement(g, current_player, target_id, free_village)
             IN  IF placing
                 THEN [g |-> [b.g EXCEPT
                                !.initial_buildings_placed[g.turn_number][1] = b.ok],
                       ok |-> b.ok]
                 ELSE b
        ELSE IF action_type = "build_city"
        THEN build_city(g, current_player, target_id)
        ELSE IF action_type = "build_road"
        THEN LET free_road ==
                     IF placing
                     THEN g.initial_buildings_placed[g.turn_number][2] = FALSE
                     ELSE TRUE
                 b == build_road(g, current_player, target_id, free_road)
             IN  IF placing
                 THEN [g |-> [b.g EXCEPT
                                !.initial_buildings_placed[g.turn_number][2] = b.ok],
                       ok |-> b.ok]
                 ELSE b
        ELSE [g |-> g, ok |-> FALSE]

perform_build_action(g, action_type, target_id) ==
    LET current_player == get_player(g.current_player_id)
        placing == g.turn_number < 4
    IN  IF action_type = "build_settlement"
        THEN LET free_village ==
                     IF placing
                     THEN g.initial_buildings_placed[g.turn_number][1] = FALSE
                     ELSE FALSE
                 b == build_settlement(g, current_player, target_id, free_village)
             IN  IF placing
                 THEN [g |-> [b.g EXCEPT
                                !.initial_buildings_placed[g.turn_number][1] = b.ok],
                       ok |-> b.ok]
                 ELSE b
        ELSE IF action_type = "build_city"
        THEN build_city(g, current_player, target_id)
        ELSE IF action_type = "build_road"
        THEN LET free_road ==
                     IF placing
                     THEN g.initial_buildings_placed[g.turn_number][2] = FALSE
                     ELSE FALSE
                 b == build_road(g, current_player, target_id, free_road)
             IN  IF placing
                 THEN [g |-> [b.g EXCEPT
                                !.initial_buildings_placed[g.turn_number][2] = b.ok],
                       ok |-> b.ok]
                 ELSE b
        ELSE [g |-> g, ok |-> FALSE]

(* Faulty variant of calculate_victory_points: the title bonus is left out. *)
calculate_victory_points_no_title(g, player) ==
    g.built[player].settlements + g.built[player].cities * 2

(* Faulty variant of calculate_victory_points: every road built counts one *)
(* point.                                                                  *)
calculate_victory_points_with_roads(g, player) ==
    g.built[player].settlements
    + g.built[player].cities * 2
    + g.built[player].roads
    + (IF g.longest_road_owner = player THEN 2 ELSE 0)

calculate_victory_points(g, player) ==
    g.built[player].settlements
    + g.built[player].cities * 2
    + (IF g.longest_road_owner = player THEN 2 ELSE 0)

(* Longest road: the adjacency lists of a player's road graph, given as    *)
(* the set of successors of every node (empty for a node without a key).   *)

(* Faulty variant of player_road_graph: the opponent's positions do not    *)
(* block.                                                                  *)
player_road_graph_unblocked(g, player_id) ==
    [n \in Nodes |->
        {RoadNodes(road)[2] :
             road \in {r \in Roads : g.owner[r] = player_id /\ RoadNodes(r)[1] = n}}
        \cup
        {RoadNodes(road)[1] :
             road \in {r \in Roads : g.owner[r] = player_id /\ RoadNodes(r)[2] = n}}]

player_road_graph(g, player_id) ==
    LET blocked == IF player_id = 1 THEN {2, 4} ELSE {1, 3}
        usable(road) ==
            /\ g.owner[road] = player_id
            /\ ~(g.occupant[RoadNodes(road)[1]] \in blocked
                 /\ g.occupant[RoadNodes(road)[2]] \in blocked)
    IN  [n \in Nodes |->
            IF g.occupant[n] \in blocked THEN {}
            ELSE {RoadNodes(road)[2] :
                      road \in {r \in AdjacentRoads(n) :
                                  usable(r) /\ RoadNodes(r)[1] = n}}
                 \cup
                 {RoadNodes(road)[1] :
                      road \in {r \in AdjacentRoads(n) :
                                  usable(r) /\ RoadNodes(r)[2] = n}}]

SetMax(S) == IF S = {} THEN 0 ELSE CHOOSE x \in S : \A y \in S : y <= x

EdgeKey(a, b) == IF a <= b THEN <<a, b>> ELSE <<b, a>>

RECURSIVE dfs_longest_path(_, _, _)
dfs_longest_path(graph, current, visited_edges) ==
    SetMax({1 + dfs_longest_path(graph, nxt,
                                 visited_edges \cup {EdgeKey(current, nxt)}) :
                nxt \in {n \in graph[current] :
                            EdgeKey(current, n) \notin visited_edges}})

compute_longest_road_for_player(g, player_id) ==
    LET graph == player_road_graph(g, player_id)
    IN  SetMax({dfs_longest_path(graph, node, {}) :
                    node \in {n \in Nodes : graph[n] # {}}})

(* Faulty variant of update_longest_road: the title needs a length above   *)
(* the threshold.                                                          *)
update_longest_road_above_threshold(g) ==
    LET p1_len == compute_longest_road_for_player(g, 1)
        p2_len == compute_longest_road_for_player(g, 2)
        best   == IF p1_len >= p2_len THEN p1_len ELSE p2_len
    IN  IF best <= g.longest_road_length
        THEN [g EXCEPT !.longest_road_owner = 0]
        ELSE IF p1_len = p2_len
        THEN [g EXCEPT !.longest_road_owner = 0]
        ELSE IF p1_len > p2_len
        THEN [g EXCEPT !.longest_road_owner = 1]
        ELSE [g EXCEPT !.longest_road_owner = 2]

(* Faulty variant of update_longest_road: on a tie the title stays where   *)
(* it was.                                                                 *)
update_longest_road_keeping_on_tie(g) ==
    LET p1_len == compute_longest_road_for_player(g, 1)
        p2_len == compute_longest_road_for_player(g, 2)
        best   == IF p1_len >= p2_len THEN p1_len ELSE p2_len
    IN  IF best < g.longest_road_length
        THEN [g EXCEPT !.longest_road_owner = 0]
        ELSE IF p1_len = p2_len
        THEN g
        ELSE IF p1_len > p2_len
        THEN [g EXCEPT !.longest_road_owner = 1]
        ELSE [g EXCEPT !.longest_road_owner = 2]

(* Faulty variant of update_longest_road: the first definition of the      *)
(* method in the class, which the second one replaces; it moves the        *)
(* threshold and keeps the holder on a tie.                                *)
update_longest_road_first_definition(g) ==
    LET p1_road_length == compute_longest_road_for_player(g, 1)
        p2_road_length == compute_longest_road_for_player(g, 2)
    IN  IF p1_road_length >= g.longest_road_length
           /\ p1_road_length > p2_road_length
        THEN [g EXCEPT !.longest_road_owner = 1,
                       !.longest_road_length = p1_road_length]
        ELSE IF p2_road_length >= g.longest_road_length
                /\ p2_road_length > p1_road_length
        THEN [g EXCEPT !.longest_road_owner = 2,
                       !.longest_road_length = p2_road_length]
        ELSE g

update_longest_road(g) ==
    LET p1_len == compute_longest_road_for_player(g, 1)
        p2_len == compute_longest_road_for_player(g, 2)
        best   == IF p1_len >= p2_len THEN p1_len ELSE p2_len
    IN  IF best < g.longest_road_length
        THEN [g EXCEPT !.longest_road_owner = 0]
        ELSE IF p1_len = p2_len
        THEN [g EXCEPT !.longest_road_owner = 0]
        ELSE IF p1_len > p2_len
        THEN [g EXCEPT !.longest_road_owner = 1]
        ELSE [g EXCEPT !.longest_road_owner = 2]

(* Faulty variant of is_finished: the caps must be exceeded, not reached. *)
is_finished_strict(g, p) ==
    /\ g.built[p].settlements > MAX_VILLAGES
    /\ g.built[p].cities > MAX_CITIES
    /\ g.built[p].roads > MAX_ROADS

(* Faulty variant of is_finished: the roads are not looked at.             *)
is_finished_without_roads(g, p) ==
    /\ g.built[p].settlements >= MAX_VILLAGES
    /\ g.built[p].cities >= MAX_CITIES

is_finished(g, p) ==
    /\ g.built[p].settlements >= MAX_VILLAGES
    /\ g.built[p].cities >= MAX_CITIES
    /\ g.built[p].roads >= MAX_ROADS

check_win_condition(g) ==
    IF ~(is_finished(g, 1) \/ is_finished(g, 2))
    THEN g
    ELSE LET p1_points == calculate_victory_points(g, 1)
             p2_points == calculate_victory_points(g, 2)
         IN  [g EXCEPT !.finished = TRUE,
                       !.winner = IF p1_points > p2_points THEN 1
                                  ELSE IF p2_points > p1_points THEN 2
                                  ELSE 0]

(* Faulty variant of game_over: the guard on a finished game is missing.  *)
game_over_unchecked(g) == FALSE

(* The guard "if self.finished: return False" of advance_one_action. *)
game_over(g) == g.finished

(* get_ui_state: the snapshot for the interface.  The target lists are     *)
(* filled for player 1 only, and for player 1 the call then raises         *)
(* AttributeError, Player having no method get_available_trade_offers:     *)
(* "raises" tells so, and the other fields are then the values computed up *)
(* to the raise, no snapshot being returned.  A sorted list of ids is      *)
(* given as the set of its elements.                                       *)
get_ui_state(g) ==
    LET cp == g.current_player_id
        op == IF g.current_player_id = 1 THEN 2 ELSE 1
        free_village ==
            IF g.turn_number < 4
            THEN g.initial_buildings_placed[g.turn_number][1] = FALSE
            ELSE FALSE
        free_road ==
            IF g.turn_number < 4
            THEN g.initial_buildings_placed[g.turn_number][2] = FALSE
            ELSE FALSE
    IN  [raises |-> (g.current_player_id = 1),
         game |-> g,
         current_player_id |-> g.current_player_id,
         turn_number |-> g.turn_number,
         last_rolls |-> g.last_roll,
         resources_cp |-> g.resources[cp],
         resources_op |-> g.resources[op],
         available_villages_cp |->
             IF g.current_player_id = 1
             THEN get_available_settlement_spots(g, cp, free_village) ELSE {},
         available_roads_cp |->
             IF g.current_player_id = 1
             THEN get_available_road_spots(g, cp, free_road) ELSE {},
         available_cities_cp |->
             IF g.current_player_id = 1
             THEN get_available_city_spots(g, cp) ELSE {}]

(* Faulty variant of advance_one_action: end_turn switches the player in   *)
(* every slot, slot 1 included.                                            *)
advance_one_action_always_switching(g, action_type, target_id, roll) ==
    IF game_over(g)
    THEN [g |-> g, ok |-> FALSE]
    ELSE IF action_type = "start_turn"
    THEN [g |-> turn_start(g, roll), ok |-> TRUE]
    ELSE IF action_type \in {"build_settlement", "build_city", "build_road"}
    THEN LET b  == perform_build_action(g, action_type, target_id[1])
             g1 == IF b.ok /\ action_type \in {"build_road", "build_settlement"}
                   THEN update_longest_road(b.g) ELSE b.g
             g2 == IF b.ok THEN check_win_condition(g1) ELSE g1
         IN  [g |-> g2, ok |-> b.ok]
    ELSE IF action_type = "end_turn"
    THEN [g |-> switch_player(g), ok |-> TRUE]
    ELSE IF action_type = "trade_bank"
    THEN handle_bank_trade(g, get_player(g.current_player_id),
                           target_id[1], target_id[2], target_id[3])
    ELSE [g |-> g, ok |-> FALSE]

(* advance_one_action(action_type, target_id); roll is the list roll_dice  *)
(* returns if the call reaches it.  The result is the pair (state after    *)
(* the call, return value).                                                *)
(* Faulty variant of advance_one_action: an unknown action is reported as  *)
(* successful.                                                             *)
advance_one_action_unknown_accepted(g, action_type, target_id, roll) ==
    IF game_over(g)
    THEN [g |-> g, ok |-> FALSE]
    ELSE IF action_type = "start_turn"
    THEN [g |-> turn_start(g, roll), ok |-> TRUE]
    ELSE IF action_type \in {"build_settlement", "build_city", "build_road"}
    THEN LET b  == perform_build_action(g, action_type, target_id[1])
             g1 == IF b.ok /\ action_type \in {"build_road", "build_settlement"}
                   THEN update_longest_road(b.g) ELSE b.g
             g2 == IF b.ok THEN check_win_condition(g1) ELSE g1
         IN  [g |-> g2, ok |-> b.ok]
    ELSE IF action_type = "end_turn"
    THEN [g |-> IF g.turn_number # 1 THEN switch_player(g) ELSE g, ok |-> TRUE]
    ELSE IF action_type = "trade_bank"
    THEN handle_bank_trade(g, get_player(g.current_player_id),
                           target_id[1], target_id[2], target_id[3])
    ELSE [g |-> g, ok |-> TRUE]

(* Faulty variant of advance_one_action: in a placement slot end_turn is   *)
(* refused until the settlement and the road of the slot are placed.       *)
advance_one_action_end_turn_after_placing(g, action_type, target_id, roll) ==
    IF game_over(g)
    THEN [g |-> g, ok |-> FALSE]
    ELSE IF action_type = "start_turn"
    THEN [g |-> turn_start(g, roll), ok |-> TRUE]
    ELSE IF action_type \in {"build_settlement", "build_city", "build_road"}
    THEN LET b  == perform_build_action(g, action_type, target_id[1])
             g1 == IF b.ok /\ action_type \in {"build_road", "build_settlement"}
                   THEN update_longest_road(b.g) ELSE b.g
             g2 == IF b.ok THEN check_win_condition(g1) ELSE g1
         IN  [g |-> g2, ok |-> b.ok]
    ELSE IF action_type = "end_turn"
    THEN IF g.turn_number < 4
            /\ g.initial_buildings_placed[g.turn_number] # <<TRUE, TRUE>>
         THEN [g |-> g, ok |-> FALSE]
         ELSE [g |-> IF g.turn_number # 1 THEN switch_player(g) ELSE g,
               ok |-> TRUE]
    ELSE IF action_type = "trade_bank"
    THEN handle_bank_trade(g, get_player(g.current_player_id),
                           target_id[1], target_id[2], target_id[3])
    ELSE [g |-> g, ok |-> FALSE]

advance_one_action(g, action_type, target_id, roll) ==
    IF game_over(g)
    THEN [g |-> g, ok |-> FALSE]
    ELSE IF action_type = "start_turn"
    THEN [g |-> turn_start(g, roll), ok |-> TRUE]
    ELSE IF action_type \in {"build_settlement", "build_city", "build_road"}
    THEN LET b  == perform_build_action(g, action_type, target_id[1])
             g1 == IF b.ok /\ action_type \in {"build_road", "build_settlement"}
                   THEN update_longest_road(b.g) ELSE b.g
             g2 == IF b.ok THEN check_win_condition(g1) ELSE g1
         IN  [g |-> g2, ok |-> b.ok]
    ELSE IF action_type = "end_turn"
    THEN [g |-> IF g.turn_number # 1 THEN switch_player(g) ELSE g, ok |-> TRUE]
    ELSE IF action_type = "trade_bank"
    THEN handle_bank_trade(g, get_player(g.current_player_id),
                           target_id[1], target_id[2], target_id[3])
    ELSE [g |-> g, ok |-> FALSE]

-----------------------------------------------------------------------------
(* The state machine. *)

G ==
    [occupant |-> occupant, owner |-> owner, resources |-> resources,
     built |-> built, current_player_id |-> current_player_id,
     turn_number |-> turn_number, last_roll |-> last_roll,
     initial_buildings_placed |-> initial_buildings_placed,
     longest_road_owner |-> longest_road_owner,
     longest_road_length |-> longest_road_length,
     finished |-> finished, winner |-> winner]

(* The state after a call: the fields of the game as the call left them,  *)
(* the kind of the call and the value it returned.                         *)
Record(r, action_type, target_id) ==
    /\ occupant' = r.g.occupant
    /\ owner' = r.g.owner
    /\ resources' = r.g.resources
    /\ built' = r.g.built
    /\ current_player_id' = r.g.current_player_id
    /\ turn_number' = r.g.turn_number
    /\ last_roll' = r.g.last_roll
    /\ initial_buildings_placed' = r.g.initial_buildings_placed
    /\ longest_road_owner' = r.g.longest_road_owner
    /\ longest_road_length' = r.g.longest_road_length
    /\ finished' = r.g.finished
    /\ winner' = r.g.winner
    /\ horizon' = horizon
    /\ action' = action_type
    /\ success' = r.ok

Commit(r, action_type, target_id) ==
    /\ Record(r, action_type, target_id)
    /\ free_builds' = free_builds
    /\ turn_rolls' = turn_rolls
    /\ UNCHANGED <<pc, roll_stack>>

(* Targets the callers pass in. *)
NodeTargets == {6, 7}

RoadTargets == {7, 31, 32}

TradeTargets == {<<"ore", "brick", 4>>}

InRange(g) ==
    \A p \in Players, r \in Resources :
        g.resources[p][r] >= 0 - MaxDebt /\ g.resources[p][r] <= MaxRes

NoResources == [r \in Resources |-> 0]

NothingBuilt == [settlements |-> 0, cities |-> 0, roads |-> 0]

(* Game.__init__ on a freshly loaded board with two new players. *)
InitFresh ==
    /\ occupant = [n \in Nodes |-> 0]
    /\ owner = [r \in Roads |-> 0]
    /\ resources = [p \in Players |-> NoResources]
    /\ built = [p \in Players |-> NothingBuilt]
    /\ current_player_id = 1
    /\ turn_number = 0
    /\ last_roll = <<>>
    /\ initial_buildings_placed = [t \in 0..3 |-> <<FALSE, FALSE>>]
    /\ longest_road_owner = 0
    /\ longest_road_length = 5
    /\ finished = FALSE
    /\ winner = 0

(* A late state of a game, reached from the fresh game by this call        *)
(* sequence (every call returns True; "buy" is the trade_bank calls that   *)
(* set the acting player's resources to the cost, then the build):         *)
(*   slot 0, player 1: build_settlement 1, build_road 1; buy roads 2..6,   *)
(*     29, 15..20, 30; buy settlements 2, 3, 4, 16; buy cities 1, 3, 16;   *)
(*     buy settlements 6, 18, 20; end_turn, start_turn;                    *)
(*   slot 1, player 2: build_settlement 15, build_road 14; buy roads 13,   *)
(*     12, 11, 10, 9, 8, 36, 28, 27, 26, 25, 24, 23; buy settlements 13,   *)
(*     30, 28; buy cities 15, 13, 30, 28; buy settlements 11, 26, 12, 27,  *)
(*     14; then (end_turn, start_turn) three times; player 2 trades to     *)
(*     brick 1, wood 1, ore -2; end_turn, start_turn rolling (1, 1), which *)
(*     pays player 2 two ore; player 1 trades to the resources below.      *)
InitEndgame ==
    /\ occupant = [n \in Nodes |->
                      IF n \in {1, 3, 16} THEN 3
                      ELSE IF n \in {2, 4, 6, 18, 20} THEN 1
                      ELSE IF n \in {13, 15, 28, 30} THEN 4
                      ELSE IF n \in {11, 12, 14, 26, 27} THEN 2
                      ELSE 0]
    /\ owner = [r \in Roads |->
                   IF r \in (1..6) \cup (15..20) \cup {29, 30} THEN 1
                   ELSE IF r \in (8..14) \cup (23..28) \cup {36} THEN 2
                   ELSE 0]
    /\ resources = [p \in Players |->
                       IF p = 1 THEN Cost(2, 2, 1, 3, 3) ELSE Cost(1, 1, 0, 0, 0)]
    /\ built = [p \in Players |->
                   IF p = 1 THEN [settlements |-> 5, cities |-> 3, roads |-> 14]
                   ELSE [settlements |-> 5, cities |-> 4, roads |-> 14]]
    /\ current_player_id = 1
    /\ turn_number = 5
    /\ last_roll = << <<1, 1>> >>
    /\ initial_buildings_placed =
           [t \in 0..3 |-> IF t <= 1 THEN <<TRUE, TRUE>> ELSE <<FALSE, FALSE>>]
    /\ longest_road_owner = 2
    /\ longest_road_length = 5
    /\ finished = FALSE
    /\ winner = 0

(* The state at the start of placement slot 3, reached from the fresh game *)
(* by: player 1 build_settlement 7, build_road 7, end_turn, start_turn;    *)
(* player 2 build_settlement 6, build_road 5, trade_bank calls up to the   *)
(* city cost and back to no resources, build_city 6, end_turn, start_turn; *)
(* player 2 build_settlement 22, build_road 32, end_turn, start_turn.      *)
InitPlacement ==
    /\ occupant = [n \in Nodes |->
                      IF n = 7 THEN 1 ELSE IF n = 6 THEN 4
                      ELSE IF n = 22 THEN 2 ELSE 0]
    /\ owner = [r \in Roads |->
                   IF r = 7 THEN 1 ELSE IF r \in {5, 32} THEN 2 ELSE 0]
    /\ resources = [p \in Players |-> NoResources]
    /\ built = [p \in Players |->
                   IF p = 1 THEN [settlements |-> 1, cities |-> 0, roads |-> 1]
                   ELSE [settlements |-> 1, cities |-> 1, roads |-> 2]]
    /\ current_player_id = 1
    /\ turn_number = 3
    /\ last_roll = <<>>
    /\ initial_buildings_placed =
           [t \in 0..3 |-> IF t <= 2 THEN <<TRUE, TRUE>> ELSE <<FALSE, FALSE>>]
    /\ longest_road_owner = 0
    /\ longest_road_length = 5
    /\ finished = FALSE
    /\ winner = 0

Init ==
    /\ InitFresh \/ InitPlacement \/ InitEndgame
    /\ horizon = turn_number + Horizon
    /\ free_builds = <<0, 0>>
    /\ turn_rolls = 0
    /\ pc = "idle"
    /\ roll_stack = <<>>
    /\ action = "init"
    /\ success = FALSE

StartTurn ==
    \E roll \in roll_dice(MaxRerolls) :
        LET r == advance_one_action(G, "start_turn", <<>>, roll)
        IN  /\ finished \/ turn_number < horizon
            /\ InRange(r.g)
            /\ Commit(r, "start_turn", <<>>)

BuildSettlement ==
    \E node_id \in NodeTargets :
        Commit(advance_one_action(G, "build_settlement", <<node_id>>, <<>>),
               "build_settlement", <<node_id>>)

BuildCity ==
    \E node_id \in NodeTargets :
        Commit(advance_one_action(G, "build_city", <<node_id>>, <<>>),
               "build_city", <<node_id>>)

BuildRoad ==
    \E road_id \in RoadTargets :
        Commit(advance_one_action(G, "build_road", <<road_id>>, <<>>),
               "build_road", <<road_id>>)

EndTurn ==
    Commit(advance_one_action(G, "end_turn", <<>>, <<>>), "end_turn", <<>>)

TradeBank ==
    \E t \in TradeTargets :
        LET r == advance_one_action(G, "trade_bank", t, <<>>)
        IN  /\ InRange(r.g)
            /\ Commit(r, "trade_bank", t)

UnknownAction ==
    Commit(advance_one_action(G, "build_ship", <<>>, <<>>), "build_ship", <<>>)

Next ==
    \/ StartTurn
    \/ BuildSettlement
    \/ BuildCity
    \/ BuildRoad
    \/ EndTurn
    \/ TradeBank
    \/ UnknownAction

Spec == Init /\ [][Next]_vars

(* A fresh game driven by a caller that ends every turn with end_turn      *)
(* immediately followed by start_turn (the pair the terminal front end     *)
(* issues for its row "finish"), with builds in between.                   *)
DrivenInit ==
    /\ InitFresh
    /\ horizon = MaxSlot
    /\ free_builds = <<0, 0>>
    /\ turn_rolls = 0
    /\ pc = "idle"
    /\ roll_stack = <<>>
    /\ action = "init"
    /\ success = FALSE

FinishTurn ==
    \E roll \in roll_dice(MaxRerolls) :
        LET ended == advance_one_action(G, "end_turn", <<>>, <<>>)
            r     == advance_one_action(ended.g, "start_turn", <<>>, roll)
        IN  /\ finished \/ turn_number < horizon
            /\ InRange(r.g)
            /\ Commit(r, "start_turn", <<>>)

DrivenNext ==
    \/ FinishTurn
    \/ BuildSettlement
    \/ BuildCity
    \/ BuildRoad

DrivenSpec == DrivenInit /\ [][DrivenNext]_vars

-----------------------------------------------------------------------------
(* Properties. *)

BuildKinds == {"build_settlement", "build_city", "build_road"}

Capped(p) ==
    /\ built[p].settlements >= 5
    /\ built[p].cities >= 4
    /\ built[p].roads >= 15

Points(p) ==
    built[p].settlements + 2 * built[p].cities
    + (IF longest_road_owner = p THEN 2 ELSE 0)

(* C1: once finished is true, every call of advance_one_action, whatever   *)
(* its action kind, returns False and leaves the whole game state          *)
(* unchanged.                                                              *)
C1_FinishedRejectsEveryAction ==
    [][finished => (success' = FALSE /\ UNCHANGED game_vars)]_vars

(* A bank trade, which never fails in a running game, was refused. *)
C1_Witness == finished /\ action = "trade_bank" /\ success = FALSE

(* C2: a successful build after which some player has reached all three   *)
(* caps sets finished in that same call, and finished is never set by a    *)
(* call after which neither player has reached all three caps.             *)
C2_WinDetectedOnTheBuild ==
    [][/\ (action' \in BuildKinds /\ success' /\ (Capped(1)' \/ Capped(2)'))
            => finished'
       /\ (~finished /\ finished') => (Capped(1)' \/ Capped(2)')]_vars

(* The build that reached the last cap ended the game; no end_turn came   *)
(* after it.                                                               *)
C2_Witness ==
    /\ finished /\ action \in {"build_settlement", "build_road"} /\ success
    /\ Capped(1)

(* C3: the call that sets finished sets winner to the player with strictly *)
(* more victory points, and to 0 when the points are equal, whichever      *)
(* player reached the caps.                                                *)
C3_WinnerHasMorePoints ==
    [][(~finished /\ finished') =>
          winner' = (IF Points(1)' > Points(2)' THEN 1
                     ELSE IF Points(2)' > Points(1)' THEN 2 ELSE 0)]_vars

(* Player 1 reached the caps and player 2, who did not, won on points. *)
C3_Witness == finished /\ winner = 2 /\ Capped(1) /\ ~Capped(2)

(* C4: in every reachable state every resource count of both players is   *)
(* at least 0, bank trades with any offered resource and cost included.    *)
C4_ResourcesNeverNegative ==
    \A p \in Players, r \in Resources : resources[p][r] >= 0

(* C5: a build action that returns False leaves both players' resources    *)
(* and structure counts, every occupant and every road owner unchanged.    *)
C5_FailedBuildChangesNothing ==
    [][(action' \in BuildKinds /\ success' = FALSE)
          => UNCHANGED <<resources, built, occupant, owner>>]_vars

(* Outside the placement phase a road that is legal for the acting player  *)
(* was refused because the player cannot pay for it.                       *)
C5_Witness ==
    /\ ~finished /\ turn_number >= 4
    /\ action = "build_road" /\ success = FALSE
    /\ \E road_id \in RoadTargets : road_is_legal(G, road_id, current_player_id)
    /\ ~has_resources(G, current_player_id, ROAD_COST)
    /\ built[current_player_id].roads < MAX_ROADS

(* C6: an owned road keeps its owner for the rest of the game, and is      *)
(* legal to build for neither player, before and after every call.         *)
C6_RoadOwnerIsPermanent ==
    [][\A road_id \in Roads :
          owner[road_id] # 0 =>
             /\ owner'[road_id] = owner[road_id]
             /\ \A k \in Players :
                   ~road_is_legal(G, road_id, k) /\ ~road_is_legal(G', road_id, k)]_vars

(* A road owned by one player was refused to the other player, who holds a *)
(* settlement at one of its ends.                                          *)
C6_Witness ==
    /\ ~finished /\ action = "build_road" /\ success = FALSE
    /\ \E road_id \in RoadTargets :
          /\ owner[road_id] \notin {0, current_player_id}
          /\ \E i \in 1..2 : occupant[RoadNodes(road_id)[i]] = current_player_id

(* C7: every occupant is one of 0..4, and an occupant changes only from    *)
(* empty to the acting player's settlement, by that player's successful    *)
(* build_settlement, or from the acting player's settlement to that        *)
(* player's city, by that player's successful build_city.                  *)
C7_OccupantTransitions ==
    [][\A n \in Nodes :
          /\ occupant[n] \in 0..4 /\ occupant'[n] \in 0..4
          /\ occupant'[n] # occupant[n] =>
                \/ /\ occupant[n] = 0
                   /\ occupant'[n] = current_player_id
                   /\ action' = "build_settlement" /\ success'
                \/ /\ occupant[n] = current_player_id
                   /\ occupant'[n] = current_player_id + 2
                   /\ action' = "build_city" /\ success']_vars

(* A settlement on an occupied node was refused in the placement phase    *)
(* while the free settlement of the slot was still available.              *)
C7_Witness ==
    /\ turn_number < 4 /\ action = "build_settlement" /\ success = FALSE
    /\ \E n \in NodeTargets : occupant[n] \notin {0, current_player_id}
    /\ built[current_player_id].settlements = 0

(* C8: in every reachable state each player's structure counts are within *)
(* the caps: settlements <= 5, cities <= 4, roads <= 15.                   *)
C8_StructureCaps ==
    \A p \in Players :
        /\ built[p].settlements <= 5
        /\ built[p].cities <= 4
        /\ built[p].roads <= 15

(* A player at the settlement cap, able to pay for a settlement on a legal *)
(* node, was refused.                                                      *)
C8_Witness ==
    /\ ~finished /\ action = "build_settlement" /\ success = FALSE
    /\ built[current_player_id].settlements = 5
    /\ has_resources(G, current_player_id, SETTLEMENT_COST)
    /\ \E n \in NodeTargets : settlement_is_legal(G, n, current_player_id, FALSE)

CityUpgrade(k, n) ==
    /\ occupant[n] = k
    /\ occupant' = [occupant EXCEPT ![n] = k + 2]
    /\ resources' = [resources EXCEPT ![k] = [@ EXCEPT !["wheat"] = @ - 2,
                                                        !["ore"] = @ - 3]]
    /\ built' = [built EXCEPT ![k] = [@ EXCEPT !.settlements = @ - 1,
                                               !.cities = @ + 1]]

(* C9: a successful build_city of player k on node n deducts 2 wheat and   *)
(* 3 ore from k, turns n from k's settlement into k's city, decrements k's *)
(* settlement count and increments k's city count, all in that one call;   *)
(* no call makes only some of these changes.                               *)
C9_CityUpgradeIsAtomic ==
    [][/\ (action' = "build_city" /\ success')
            => \E n \in Nodes : CityUpgrade(current_player_id, n)
       /\ (\/ \E n \in Nodes : occupant'[n] \in {3, 4} /\ occupant[n] \notin {3, 4}
           \/ \E p \in Players : built'[p].cities # built[p].cities)
            => (action' = "build_city" /\ success')]_vars

(* Player 1 upgraded node 6 to its fourth city. *)
C9_Witness ==
    /\ action = "build_city" /\ success
    /\ occupant[6] = 3 /\ built[1].cities = 4 /\ built[1].settlements = 4

FreeBuild(kind) ==
    /\ turn_number < 4
    /\ \/ kind = "build_settlement" /\ ~initial_buildings_placed[turn_number][1]
       \/ kind = "build_road" /\ ~initial_buildings_placed[turn_number][2]

PriceOf(kind) ==
    IF kind = "build_settlement" THEN Cost(1, 1, 1, 1, 0)
    ELSE IF kind = "build_road" THEN Cost(1, 1, 0, 0, 0)
    ELSE Cost(0, 0, 0, 2, 3)

(* C10: a successful build that is not free deducts exactly its cost from  *)
(* the acting player and nothing else; a successful free build of the      *)
(* placement phase deducts nothing.                                        *)
C10_BuildsDeductTheirCost ==
    [][(action' \in BuildKinds /\ success') =>
          LET price == IF FreeBuild(action') THEN NoResources ELSE PriceOf(action')
          IN  resources' =
                 [resources EXCEPT ![current_player_id] =
                     [r \in Resources |-> @[r] - price[r]]]]_vars

(* On the fresh board player 1 has placed a settlement and an adjacent    *)
(* road in slot 0 and still holds no resources.                            *)
C10_Witness ==
    /\ turn_number = 0 /\ current_player_id = 1
    /\ action = "build_road" /\ success
    /\ occupant[7] = 1 /\ owner[7] = 1
    /\ built[1] = [settlements |-> 1, cities |-> 0, roads |-> 1]
    /\ built[2] = NothingBuilt
    /\ resources = [p \in Players |-> NoResources]

(* Road building along the top row of the board.  The initial state is    *)
(* reached from the fresh game by: end_turn; player 2 trade_bank           *)
(* ("brick", "wheat", 0) twice and ("brick", "ore", 0) three times;        *)
(* end_turn; player 1 build_settlement 1.  Both players then build on the  *)
(* six roads from node 1 to node 7 and on two of the nodes between them,   *)
(* in slot 0, where end_turn hands the turn over.                          *)
RoadworkRoads == 1..6

RoadworkNodes == {2, 4}

RoadworkInit ==
    /\ occupant = [n \in Nodes |-> IF n = 1 THEN 1 ELSE 0]
    /\ owner = [r \in Roads |-> 0]
    /\ resources = [p \in Players |->
                       IF p = 1 THEN NoResources ELSE Cost(0, 0, 0, 2, 3)]
    /\ built = [p \in Players |->
                   IF p = 1 THEN [settlements |-> 1, cities |-> 0, roads |-> 0]
                   ELSE NothingBuilt]
    /\ current_player_id = 1
    /\ turn_number = 0
    /\ last_roll = <<>>
    /\ initial_buildings_placed =
           [t \in 0..3 |-> IF t = 0 THEN <<TRUE, FALSE>> ELSE <<FALSE, FALSE>>]
    /\ longest_road_owner = 0
    /\ longest_road_length = 5
    /\ finished = FALSE
    /\ winner = 0
    /\ horizon = 0
    /\ free_builds = <<0, 0>>
    /\ turn_rolls = 0
    /\ pc = "idle"
    /\ roll_stack = <<>>
    /\ action = "init"
    /\ success = FALSE

RoadworkBuildRoad ==
    \E road_id \in RoadworkRoads :
        Commit(advance_one_action(G, "build_road", <<road_id>>, <<>>),
               "build_road", <<road_id>>)

RoadworkBuildSettlement ==
    \E node_id \in RoadworkNodes :
        Commit(advance_one_action(G, "build_settlement", <<node_id>>, <<>>),
               "build_settlement", <<node_id>>)

RoadworkBuildCity ==
    \E node_id \in RoadworkNodes :
        Commit(advance_one_action(G, "build_city", <<node_id>>, <<>>),
               "build_city", <<node_id>>)

RoadworkNext ==
    \/ RoadworkBuildRoad
    \/ RoadworkBuildSettlement
    \/ RoadworkBuildCity
    \/ EndTurn

RoadworkSpec == RoadworkInit /\ [][RoadworkNext]_vars

(* The calls of the placement slots, with a count, kept per slot, of the   *)
(* settlements and of the roads that were built without any deduction.     *)
Tally(r, action_type) ==
    IF r.g.turn_number # turn_number THEN <<0, 0>>
    ELSE IF r.ok /\ turn_number < 4 /\ r.g.resources = resources
            /\ action_type = "build_settlement"
    THEN <<free_builds[1] + 1, free_builds[2]>>
    ELSE IF r.ok /\ turn_number < 4 /\ r.g.resources = resources
            /\ action_type = "build_road"
    THEN <<free_builds[1], free_builds[2] + 1>>
    ELSE free_builds

SlotCall(action_type, target_id, roll) ==
    LET r == advance_one_action(G, action_type, target_id, roll)
    IN  /\ action_type = "start_turn" => (finished \/ turn_number < horizon)
        /\ InRange(r.g)
        /\ Record(r, action_type, target_id)
        /\ free_builds' = Tally(r, action_type)
        /\ turn_rolls' = turn_rolls
        /\ UNCHANGED <<pc, roll_stack>>

PlacementInit ==
    /\ InitFresh
    /\ horizon = Horizon
    /\ free_builds = <<0, 0>>
    /\ turn_rolls = 0
    /\ pc = "idle"
    /\ roll_stack = <<>>
    /\ action = "init"
    /\ success = FALSE

PlacementNext ==
    \/ \E roll \in roll_dice(MaxRerolls) : SlotCall("start_turn", <<>>, roll)
    \/ \E node_id \in NodeTargets : SlotCall("build_settlement", <<node_id>>, <<>>)
    \/ \E node_id \in NodeTargets : SlotCall("build_city", <<node_id>>, <<>>)
    \/ \E road_id \in RoadTargets : SlotCall("build_road", <<road_id>>, <<>>)
    \/ SlotCall("end_turn", <<>>, <<>>)
    \/ \E t \in TradeTargets : SlotCall("trade_bank", t, <<>>)

PlacementSpec == PlacementInit /\ [][PlacementNext]_vars

(* C12: within one placement slot at most one build_settlement and at most *)
(* one build_road succeed as free builds, whatever other calls, failed     *)
(* builds included, are made in that slot.                                 *)
C12_OneFreeBuildPerSlot ==
    free_builds[1] <= 1 /\ free_builds[2] <= 1

(* The acting player of a turn slot under the snake order: 1, 2, 2, 1 in   *)
(* slots 0..3, then alternating from slot 3 on.                            *)
SlotPlayer(t) ==
    IF t = 0 THEN 1
    ELSE IF t \in {1, 2} THEN 2
    ELSE IF (t - 3) % 2 = 0 THEN 1 ELSE 2

(* C11: in a fresh game whose every turn is ended by end_turn immediately  *)
(* followed by start_turn, the acting player of slots 0, 1, 2, 3 is        *)
(* 1, 2, 2, 1 (no switch between slots 1 and 2), and from slot 3 on the    *)
(* acting player alternates.                                               *)
C11_SnakeOrderThenAlternation ==
    current_player_id = SlotPlayer(turn_number)

(* The game was driven through the placement slots into slot 5, where      *)
(* player 1 acts, and player 2 acted in slot 2 after acting in slot 1.     *)
C11_Witness ==
    /\ turn_number = 5 /\ current_player_id = 1
    /\ action = "start_turn" /\ success

(* What a roll with the given total pays player p of resource res: over    *)
(* the hexes with that trigger and that resource, 1 for every settlement   *)
(* and 2 for every city of p on the hex.                                   *)
Payout(p, res, total) ==
    LET paying == {h \in 1..Len(Hexes) :
                      Hexes[h].dice_number = total /\ Hexes[h].resource = res}
        spots(occ) ==
            UNION {{<<h, i>> : i \in {j \in 1..6 : occupant[Hexes[h].nodes[j]] = occ}} :
                   h \in paying}
    IN  Cardinality(spots(p)) + 2 * Cardinality(spots(p + 2))

(* A recorded roll: pairs of faces, every pair but the last one a seven.   *)
IsRollHistory(roll) ==
    /\ Len(roll) >= 1
    /\ \A i \in 1..Len(roll) :
           /\ roll[i] \in (1..6) \X (1..6)
           /\ (roll[i][1] + roll[i][2] = 7) <=> (i < Len(roll))

(* C13: a start_turn after which the turn counter is below 4 leaves both   *)
(* players' resources and the recorded roll unchanged; a start_turn after  *)
(* which the counter is 4 or more records a roll and pays both players     *)
(* the production of its final total.                                      *)
C13_StartTurnRollsFromSlotFour ==
    [][(action' = "start_turn" /\ success') =>
          IF turn_number' < 4
          THEN UNCHANGED <<resources, last_roll>>
          ELSE /\ IsRollHistory(last_roll')
               /\ LET final == last_roll'[Len(last_roll')]
                  IN  resources' =
                         [p \in Players |-> [res \in Resources |->
                             resources[p][res]
                             + Payout(p, res, final[1] + final[2])]]]_vars

(* The first turn after the placement phase re-rolled a seven and then     *)
(* rolled 2: the sheep hex paid player 1 for a settlement and player 2 for *)
(* a city and a settlement.                                                *)
C13_Witness ==
    /\ action = "start_turn" /\ success /\ turn_number = 4
    /\ Len(last_roll) = 2
    /\ resources[1]["sheep"] = 1 /\ resources[2]["sheep"] = 3

(* C14: with the turn counter at 4 or more no build is free: a successful  *)
(* build_settlement or build_road deducts its full cost from the acting    *)
(* player, and a successful build_settlement is on a node that had an      *)
(* adjacent road of the acting player.                                     *)
C14_NoFreeBuildAfterPlacement ==
    [][(turn_number >= 4 /\ action' \in {"build_settlement", "build_road"}
        /\ success') =>
          /\ resources' =
                [resources EXCEPT ![current_player_id] =
                    [r \in Resources |-> @[r] - PriceOf(action')[r]]]
          /\ action' = "build_settlement" =>
                \E n \in Nodes :
                    /\ occupant[n] = 0 /\ occupant'[n] = current_player_id
                    /\ \E road_id \in AdjacentRoads(n) :
                           owner[road_id] = current_player_id]_vars

(* After the placement phase player 1 paid for a settlement on node 7,     *)
(* next to its road 6.                                                     *)
C14_Witness ==
    /\ turn_number >= 4 /\ action = "build_settlement" /\ success
    /\ current_player_id = 1 /\ occupant[7] = 1 /\ owner[6] = 1

(* The trades a caller may ask for: any two resources and a unit cost.     *)
BankOffers == Resources \X Resources \X (1..4)

(* C15: while the game is not finished, trade_bank with target (offered,   *)
(* wanted, cost) returns True, takes exactly cost of the offered resource  *)
(* from the acting player and gives exactly 1 of the wanted resource, and  *)
(* changes nothing else, whether or not the player holds cost of the       *)
(* offered resource.                                                       *)
C15_BankTradeIsUnconditional ==
    ~finished =>
        \A t \in BankOffers :
            LET r == advance_one_action(G, "trade_bank", t, <<>>)
            IN  /\ r.ok
                /\ r.g = [G EXCEPT !.resources[current_player_id] =
                             [res \in Resources |->
                                 @[res] - (IF res = t[1] THEN t[3] ELSE 0)
                                        + (IF res = t[2] THEN 1 ELSE 0)]]

(* A player holding no ore traded 4 ore for 1 brick. *)
C15_Witness ==
    /\ action = "trade_bank" /\ success
    /\ resources[current_player_id]["ore"] = -4
    /\ resources[current_player_id]["brick"] = 1

(* The holder of the title by the rule: the player whose computed length   *)
(* is at least 5 and strictly greater than the other player's, else 0.     *)
TitleHolder ==
    LET len1 == compute_longest_road_for_player(G, 1)
        len2 == compute_longest_road_for_player(G, 2)
    IN  IF len1 >= 5 /\ len1 > len2 THEN 1
        ELSE IF len2 >= 5 /\ len2 > len1 THEN 2
        ELSE 0

(* C16: after every successful build_road or build_settlement,             *)
(* longest_road_owner is k exactly when player k's computed length is at   *)
(* least 5 and strictly greater than the other player's, and 0 when the    *)
(* lengths are equal or neither reaches 5.                                 *)
C16_TitleFollowsTheLengths ==
    (action \in {"build_road", "build_settlement"} /\ success)
        => longest_road_owner = TitleHolder

(* A road made the two lengths equal, both at least 5, and the title is    *)
(* with nobody.                                                            *)
C16_Witness ==
    /\ action = "build_road" /\ success /\ longest_road_owner = 0
    /\ compute_longest_road_for_player(G, 1) >= 5
    /\ compute_longest_road_for_player(G, 1) = compute_longest_road_for_player(G, 2)

(* Roads of a player as a set of edges, and the shape of such a set.       *)
OwnedRoads(p) == {r \in Roads : owner[r] = p}

OpponentAt(p, n) == occupant[n] \in {3 - p, 5 - p}

RoadsAt(E, n) == {r \in E : RoadNodes(r)[1] = n \/ RoadNodes(r)[2] = n}

OtherEnd(r, n) == IF RoadNodes(r)[1] = n THEN RoadNodes(r)[2] ELSE RoadNodes(r)[1]

NodesOf(E) == {n \in Nodes : RoadsAt(E, n) # {}}

(* The number of edges walked from node n along E while there is exactly   *)
(* one edge to go on with.                                                 *)
RECURSIVE Follow(_, _)
Follow(E, n) ==
    IF Cardinality(RoadsAt(E, n)) # 1 THEN 0
    ELSE LET r == CHOOSE e \in RoadsAt(E, n) : TRUE
         IN  1 + Follow(E \ {r}, OtherEnd(r, n))

(* E is one simple chain of k connected edges. *)
IsChain(E, k) ==
    /\ k >= 1 /\ Cardinality(E) = k
    /\ \A n \in Nodes : Cardinality(RoadsAt(E, n)) <= 2
    /\ \E n \in Nodes : Cardinality(RoadsAt(E, n)) = 1 /\ Follow(E, n) = k

(* C17: when a player's roads form one simple chain of k connected edges   *)
(* with no position of the opponent on it, the computed longest-road       *)
(* length is k; with the opponent's length below 5 the player does not     *)
(* hold the title for k = 4 and holds it for k = 5.                        *)
C17_ChainLengthAndThreshold ==
    \A p \in Players, k \in 1..MAX_ROADS :
        (/\ IsChain(OwnedRoads(p), k)
         /\ \A n \in NodesOf(OwnedRoads(p)) : ~OpponentAt(p, n))
        => /\ compute_longest_road_for_player(G, p) = k
           /\ compute_longest_road_for_player(G, 3 - p) < 5
                 => /\ k = 4 => longest_road_owner # p
                    /\ k = 5 => longest_road_owner = p

(* Player 1's fifth road completed an open chain of 5 from node 1 and      *)
(* brought the title.                                                      *)
C17_Witness ==
    /\ action = "build_road" /\ success /\ current_player_id = 1
    /\ IsChain(OwnedRoads(1), 5)
    /\ \A n \in NodesOf(OwnedRoads(1)) : ~OpponentAt(1, n)
    /\ longest_road_owner = 1

(* The number of edges from node n along E up to node m. *)
RECURSIVE StepsTo(_, _, _)
StepsTo(E, n, m) ==
    IF n = m \/ RoadsAt(E, n) = {} THEN 0
    ELSE LET r == CHOOSE e \in RoadsAt(E, n) : TRUE
         IN  1 + StepsTo(E \ {r}, OtherEnd(r, n), m)

(* C18: when a player's roads form a simple chain of 6 edges and exactly   *)
(* one position of the chain, an interior one, holds the opponent's        *)
(* settlement or city, the computed longest-road length is the larger of   *)
(* the edge counts of the two segments on either side of that position,    *)
(* never 0 and never 6.                                                    *)
C18_BlockedChainCountsLongerSegment ==
    \A p \in Players :
        LET E       == OwnedRoads(p)
            blocked == {n \in NodesOf(E) : OpponentAt(p, n)}
            length  == compute_longest_road_for_player(G, p)
        IN  (/\ IsChain(E, 6)
             /\ Cardinality(blocked) = 1
             /\ \A n \in blocked : Cardinality(RoadsAt(E, n)) = 2)
            => \E a \in NodesOf(E), m \in blocked :
                  /\ Cardinality(RoadsAt(E, a)) = 1
                  /\ LET left == StepsTo(E, a, m)
                     IN  length = (IF left >= 6 - left THEN left ELSE 6 - left)
                  /\ length # 0 /\ length # 6

(* Player 1 owns the six roads from node 1 to node 7 and player 2 has a    *)
(* city on node 2, between a segment of 1 and a segment of 5: the length   *)
(* is 5.                                                                   *)
C18_Witness ==
    /\ OwnedRoads(1) = 1..6 /\ occupant[2] = 4 /\ occupant[4] \notin {2, 4}
    /\ compute_longest_road_for_player(G, 1) = 5

(* The greatest number of edges of a path of player p that starts at node  *)
(* n, uses edges of E only, each at most once, and does not go on from a   *)
(* position of the opponent it has arrived at.                             *)
RECURSIVE Trail(_, _, _)
Trail(p, E, n) ==
    SetMax({1 + (IF OpponentAt(p, OtherEnd(r, n)) THEN 0
                 ELSE Trail(p, E \ {r}, OtherEnd(r, n))) :
                r \in RoadsAt(E, n)})

(* C19: for every board state and player the computed longest-road length *)
(* is the greatest number of edges of a path over the player's roads that  *)
(* reuses no edge and has no position of the opponent as an interior       *)
(* position; positions of the opponent may be the end positions of the     *)
(* path.                                                                   *)
C19_LongestPathEndsAnywhere ==
    \A p \in Players :
        compute_longest_road_for_player(G, p)
            = SetMax({Trail(p, OwnedRoads(p), n) : n \in Nodes})

(* C20: road_is_legal(edge, player) is true exactly when the edge is       *)
(* unowned and either one of its end positions holds that player's         *)
(* settlement or city, or another edge sharing an end position with it is  *)
(* owned by that player.                                                   *)
C20_RoadLegalNextToOwnStructure ==
    \A road_id \in Roads, p \in Players :
        road_is_legal(G, road_id, p)
            <=> /\ owner[road_id] = 0
                /\ \/ \E i \in 1..2 : occupant[RoadNodes(road_id)[i]] \in {p, p + 2}
                   \/ \E other \in Roads \ {road_id} :
                         /\ owner[other] = p
                         /\ \E i, j \in 1..2 :
                               RoadNodes(other)[i] = RoadNodes(road_id)[j]

-----------------------------------------------------------------------------
(* The legality predicates and mutators of the board.                      *)

(* C21: in placement mode a settlement is legal at a position exactly when *)
(* the position is empty; outside placement mode exactly when the position *)
(* is empty and one of the edges ending there is owned by the player.  No  *)
(* occupied position is legal in either mode, whatever roads end there.    *)
(* The mutators of Board called directly, as its public methods allow, on  *)
(* a freshly loaded board: a call changes the board only and returns       *)
(* nothing.                                                                *)

BoardNodes == {6, 7}

BoardRoads == {6, 7}

BoardInit ==
    /\ InitFresh
    /\ horizon = 0
    /\ free_builds = <<0, 0>>
    /\ turn_rolls = 0
    /\ pc = "idle"
    /\ roll_stack = <<>>
    /\ action = "init"
    /\ success = FALSE

BoardCall(g, method) ==
    /\ occupant' = g.occupant
    /\ owner' = g.owner
    /\ action' = method
    /\ UNCHANGED <<resources, built, current_player_id, turn_number, last_roll,
                   initial_buildings_placed, longest_road_owner,
                   longest_road_length, finished, winner, horizon,
                   free_builds, turn_rolls, pc, roll_stack, success>>

SetSettlement ==
    \E node_id \in BoardNodes, player \in Players :
        BoardCall(set_settlement(G, node_id, player), "set_settlement")

SetCity ==
    \E node_id \in BoardNodes, player \in Players :
        BoardCall(set_city(G, node_id, player), "set_city")

SetRoad ==
    \E road_id \in BoardRoads, player \in Players :
        BoardCall(set_road(G, road_id, player), "set_road")

BoardNext ==
    \/ SetSettlement
    \/ SetCity
    \/ SetRoad

BoardSpec == BoardInit /\ [][BoardNext]_vars

C21_SettlementLegality ==
    \A n \in Nodes, p \in Players :
        /\ settlement_is_legal(G, n, p, TRUE) <=> occupant[n] = 0
        /\ settlement_is_legal(G, n, p, FALSE)
               <=> (occupant[n] = 0 /\ RoadsAt(OwnedRoads(p), n) # {})
        /\ occupant[n] # 0 =>
               \A placement \in BOOLEAN : ~settlement_is_legal(G, n, p, placement)

(* A settlement refused after the placement phase, every target being     *)
(* occupied, one of them with a road of the player ending there.           *)
C21_Witness ==
    /\ ~finished /\ turn_number >= 4
    /\ action = "build_settlement" /\ success = FALSE
    /\ built[current_player_id].settlements < MAX_VILLAGES
    /\ \A n \in NodeTargets : occupant[n] # 0
    /\ \E n \in NodeTargets : RoadsAt(OwnedRoads(current_player_id), n) # {}

(* C22: an upgrade to a city is legal at a position exactly when its       *)
(* occupant is the player's settlement: not when it is empty, holds the    *)
(* opponent's settlement or city, or is already the player's city.         *)
C22_CityLegality ==
    \A n \in Nodes, p \in Players :
        /\ occupant[n] = p => city_is_legal(G, n, p)
        /\ (occupant[n] = 0 \/ OpponentAt(p, n) \/ occupant[n] = p + 2)
               => ~city_is_legal(G, n, p)

(* An upgrade refused with the player's own city at one target and no     *)
(* settlement of the player at the other.                                  *)
C22_Witness ==
    /\ ~finished /\ action = "build_city" /\ success = FALSE
    /\ built[current_player_id].cities < MAX_CITIES
    /\ \E n \in NodeTargets : occupant[n] = current_player_id + 2
    /\ \A n \in NodeTargets : occupant[n] # current_player_id

(* C23: set_road gives an unowned edge to the player and leaves the owner  *)
(* of an edge that is already owned, by either player, as it is.           *)
C23_SetRoadOnlyOnUnownedEdge ==
    \A road_id \in Roads, player \in Players :
        set_road(G, road_id, player).owner[road_id]
            = IF owner[road_id] = 0 THEN player ELSE owner[road_id]

(* C24: set_city turns the occupant of the position into the player's city *)
(* when it is the player's settlement, and for every other occupant (none, *)
(* the opponent's settlement, a city of either player) changes nothing.    *)
C24_SetCityOnlyOnOwnSettlement ==
    \A node_id \in Nodes, player \in Players :
        set_city(G, node_id, player)
            = IF occupant[node_id] = player
              THEN [G EXCEPT !.occupant[node_id] = player + 2]
              ELSE G

(* set_city has made a city of player 1 at one position while the other    *)
(* holds a settlement of player 2.                                         *)
C24_Witness ==
    /\ action = "set_city"
    /\ occupant[6] = 3
    /\ occupant[7] = 2

-----------------------------------------------------------------------------
(* Production. *)

(* C25: distributing the production of a roll with total n adds to each    *)
(* player's count of each resource one unit per settlement and two per     *)
(* city of that player on the positions of the tiles with trigger n and    *)
(* that resource, for both players alike, and changes nothing else; tiles  *)
(* with another trigger and empty positions add nothing.                   *)
C25_ProductionPerStructure ==
    \A n \in 2..12 :
        LET pair == IF n <= 7 THEN <<1, n - 1>> ELSE <<6, n - 6>>
        IN  distribute_resources(G, <<pair>>)
                = [G EXCEPT !.resources =
                      [p \in Players |->
                          [r \in Resources |-> resources[p][r] + Payout(p, r, n)]]]

(* A roll of 2 on the first turn after placement has paid player 1 one     *)
(* sheep for a settlement and player 2 three for a city and a settlement.  *)
C25_Witness ==
    /\ action = "start_turn" /\ success
    /\ turn_number = 4
    /\ last_roll = << <<1, 1>> >>
    /\ resources[1]["sheep"] = 1
    /\ resources[2]["sheep"] = 3
    /\ occupant[6] = 4 /\ occupant[7] = 1 /\ occupant[22] = 2

(* C26: every recorded roll is a non-empty list of pairs of which all but  *)
(* the last sum to 7 and the last does not; a start_turn that rolls        *)
(* records the list it rolled, and what it pays is the production of the   *)
(* last pair's sum alone, nothing for the sevens before it.                *)
C26_RollEndsOnTheProducingPair ==
    /\ last_roll # <<>> => IsRollHistory(last_roll)
    /\ (~finished /\ turn_number >= 3) =>
           \A roll \in roll_dice(MaxRerolls) :
               LET after == advance_one_action(G, "start_turn", <<>>, roll).g
                   final == roll[Len(roll)][1] + roll[Len(roll)][2]
               IN  /\ IsRollHistory(roll)
                   /\ final # 7
                   /\ after.last_roll = roll
                   /\ \A p \in Players, r \in Resources :
                          after.resources[p][r]
                              = resources[p][r] + Payout(p, r, final)

(* A start_turn has rolled a seven and then 12, and both players hold the  *)
(* wheat of the tile with trigger 12.                                      *)
C26_Witness ==
    /\ action = "start_turn" /\ success
    /\ turn_number = 4
    /\ last_roll = << <<6, 1>>, <<6, 6>> >>
    /\ resources[1]["wheat"] = 1
    /\ resources[2]["wheat"] = 1

-----------------------------------------------------------------------------
(* Counters and scoring. *)

(* The positions holding a settlement or a city of player p. *)
Held(p) == {n \in Nodes : occupant[n] \in {p, p + 2}}

(* C27, as stated: after a successful action every player's settlements    *)
(* count plus twice the cities count is at most the number of positions    *)
(* the player occupies.                                                    *)
C27_SettlementsPlusTwiceCities ==
    success =>
        \A p \in Players :
            built[p].settlements + 2 * built[p].cities <= Cardinality(Held(p))

(* C27, amended: after a successful action every player's settlements       *)
(* count plus the cities count is at most the number of positions the      *)
(* player occupies.                                                        *)
C27_SettlementsPlusCities ==
    success =>
        \A p \in Players :
            built[p].settlements + built[p].cities <= Cardinality(Held(p))

(* After a successful upgrade the acting player has cities, every occupied *)
(* position is counted once, and twice the cities would exceed them.       *)
C27_Witness ==
    /\ action = "build_city" /\ success
    /\ built[current_player_id].cities >= 1
    /\ built[current_player_id].settlements + built[current_player_id].cities
           = Cardinality(Held(current_player_id))
    /\ built[current_player_id].settlements + 2 * built[current_player_id].cities
           > Cardinality(Held(current_player_id))

(* C28: a player's victory points are the settlements count, plus twice    *)
(* the cities count, plus 2 when the player holds the longest-road title;  *)
(* the roads count and the resources held do not enter: the points are the *)
(* same with no roads counted and no resources held.                       *)
C28_VictoryPoints ==
    \A p \in Players :
        /\ calculate_victory_points(G, p)
               = built[p].settlements + 2 * built[p].cities
                 + (IF longest_road_owner = p THEN 2 ELSE 0)
        /\ calculate_victory_points(
               [G EXCEPT !.resources = [q \in Players |-> NoResources],
                         !.built = [q \in Players |->
                                       [built[q] EXCEPT !.roads = 0]]], p)
               = calculate_victory_points(G, p)

(* The game has ended with the winner holding the title and 15 points:     *)
(* 5 settlements, 4 cities and the title.                                  *)
C28_Witness ==
    /\ finished /\ winner # 0
    /\ longest_road_owner = winner
    /\ built[winner].roads = MAX_ROADS
    /\ calculate_victory_points(G, winner) = 15

-----------------------------------------------------------------------------
(* The action interface. *)

(* Action kinds that advance_one_action does not know; the known kinds are *)
(* matched exactly, so a known kind in another case is unknown too.        *)
UnknownKinds == {"build_ship", "roll_dice", "END_TURN", ""}

(* C29: in every state, advance_one_action with an unknown action kind     *)
(* returns False and leaves the whole game state as it was.                *)
C29_UnknownActionChangesNothing ==
    \A kind \in UnknownKinds :
        advance_one_action(G, kind, <<>>, <<>>) = [g |-> G, ok |-> FALSE]

(* An unknown action was refused in a running game after the placement     *)
(* phase, with structures of both players on the board.                    *)
C29_Witness ==
    /\ ~finished /\ turn_number >= 4
    /\ action = "build_ship" /\ success = FALSE
    /\ \A p \in Players : Held(p) # {}

-----------------------------------------------------------------------------
(* The queries. *)

(* The free flags of the current slot, as perform_build_action takes them. *)
SlotFree(k) ==
    IF turn_number < 4 THEN initial_buildings_placed[turn_number][k] = FALSE
    ELSE FALSE

(* C31: in every reachable state, whoever is acting, get_ui_state returns  *)
(* a snapshot whose settlement, road and city targets are exactly the      *)
(* targets the acting player can build now (legal, within the caps, and    *)
(* paid for or free in the current slot), and the game state is unchanged. *)
C31_SnapshotListsTheBuildableTargets ==
    LET ui == get_ui_state(G)
        cp == current_player_id
    IN  /\ ~ui.raises
        /\ ui.game = G
        /\ ui.available_villages_cp
               = {n \in Nodes : can_build_settlement(G, cp, n, SlotFree(1))}
        /\ ui.available_roads_cp
               = {r \in Roads : can_build_road(G, cp, r, SlotFree(2))}
        /\ ui.available_cities_cp
               = {n \in Nodes : can_build_city(G, cp, n)}

(* C32: for every player and either value of the free flag, the available  *)
(* settlement, road and city spots are exactly the targets for which       *)
(* can_build_settlement, can_build_road and can_build_city hold; they are  *)
(* none when the player is at the cap of the kind, or cannot pay and the   *)
(* build is not free.                                                      *)
C32_AvailableSpotsAreTheBuildableOnes ==
    \A p \in Players :
        /\ \A free \in BOOLEAN :
               /\ get_available_settlement_spots(G, p, free)
                      = {n \in Nodes : can_build_settlement(G, p, n, free)}
               /\ get_available_road_spots(G, p, free)
                      = {r \in Roads : can_build_road(G, p, r, free)}
        /\ get_available_city_spots(G, p)
               = {n \in Nodes : can_build_city(G, p, n)}
        /\ (built[p].settlements >= MAX_VILLAGES
               \/ ~has_resources(G, p, SETTLEMENT_COST))
               => get_available_settlement_spots(G, p, FALSE) = {}
        /\ (built[p].roads >= MAX_ROADS \/ ~has_resources(G, p, ROAD_COST))
               => get_available_road_spots(G, p, FALSE) = {}
        /\ (built[p].cities >= MAX_CITIES \/ ~has_resources(G, p, CITY_COST))
               => get_available_city_spots(G, p) = {}

(* The acting player is at the cap of the settlements, can pay for one and *)
(* has legal positions, and a settlement was refused.                      *)
C32_Witness ==
    /\ built[current_player_id].settlements = MAX_VILLAGES
    /\ has_resources(G, current_player_id, SETTLEMENT_COST)
    /\ list_legal_settlement_spots(G, current_player_id, FALSE) # {}
    /\ get_available_settlement_spots(G, current_player_id, FALSE) = {}
    /\ get_available_city_spots(G, current_player_id) # {}

-----------------------------------------------------------------------------
(* The turns after the placement phase, from the start of placement slot 3 *)
(* on, with the rolling start_turn calls since the last end_turn counted.  *)

(* The count after a call: an end_turn starts it again, a start_turn that  *)
(* brought the counter to 4 or more, and so rolled and produced, adds one. *)
Rolled(r, action_type) ==
    IF ~r.ok THEN turn_rolls
    ELSE IF action_type = "end_turn" THEN 0
    ELSE IF action_type = "start_turn" /\ r.g.turn_number >= 4
    THEN turn_rolls + 1
    ELSE turn_rolls

TurnCall(action_type, target_id, roll) ==
    LET r == advance_one_action(G, action_type, target_id, roll)
    IN  /\ action_type = "start_turn" => (finished \/ turn_number < horizon)
        /\ InRange(r.g)
        /\ Record(r, action_type, target_id)
        /\ free_builds' = free_builds
        /\ turn_rolls' = Rolled(r, action_type)
        /\ UNCHANGED <<pc, roll_stack>>

TurnInit ==
    /\ InitPlacement
    /\ horizon = turn_number + Horizon
    /\ free_builds = <<0, 0>>
    /\ turn_rolls = 0
    /\ pc = "idle"
    /\ roll_stack = <<>>
    /\ action = "init"
    /\ success = FALSE

TurnNext ==
    \/ \E roll \in roll_dice(MaxRerolls) : TurnCall("start_turn", <<>>, roll)
    \/ \E node_id \in NodeTargets : TurnCall("build_settlement", <<node_id>>, <<>>)
    \/ \E node_id \in NodeTargets : TurnCall("build_city", <<node_id>>, <<>>)
    \/ \E road_id \in RoadTargets : TurnCall("build_road", <<road_id>>, <<>>)
    \/ TurnCall("end_turn", <<>>, <<>>)
    \/ \E t \in TradeTargets : TurnCall("trade_bank", t, <<>>)

TurnSpec == TurnInit /\ [][TurnNext]_vars

(* C33: after the placement phase a turn has one dice roll: between two    *)
(* end_turn calls at most one start_turn advances the turn counter, rolls  *)
(* and produces, however many are issued.                                  *)
C33_OneRollPerTurn == turn_rolls <= 1

(* C34: after the placement phase, a build or a bank trade issued after an *)
(* end_turn and before the start_turn of the new turn returns False and    *)
(* changes nothing.                                                        *)
C34_NoBuildOrTradeBeforeTheRoll ==
    [][(turn_number >= 4 /\ turn_rolls = 0
            /\ action' \in BuildKinds \cup {"trade_bank"})
          => (success' = FALSE /\ UNCHANGED game_vars)]_vars

-----------------------------------------------------------------------------
(* start_turn taken draw by draw: turn_start adds one to the turn counter  *)
(* and calls roll_dice, every frame of which draws a pair and, on a seven, *)
(* calls roll_dice again; the frame that draws another total returns, the  *)
(* sevens are put in front of its pair on the way back, and turn_start     *)
(* distributes and records the roll.  A call past the interpreter's        *)
(* recursion limit raises RecursionError out of advance_one_action.        *)

RollInit ==
    /\ InitPlacement
    /\ horizon = turn_number + Horizon
    /\ free_builds = <<0, 0>>
    /\ turn_rolls = 0
    /\ pc = "idle"
    /\ roll_stack = <<>>
    /\ action = "init"
    /\ success = FALSE

CallStartTurn ==
    /\ pc = "idle"
    /\ finished \/ turn_number < horizon
    /\ action' = "start_turn"
    /\ IF game_over(G)
       THEN success' = FALSE /\ UNCHANGED <<turn_number, pc>>
       ELSE /\ turn_number' = turn_number + 1
            /\ success' = (turn_number + 1 < 4)
            /\ pc' = IF turn_number + 1 >= 4 THEN "roll_dice" ELSE "idle"
    /\ UNCHANGED <<occupant, owner, resources, built, current_player_id,
                   last_roll, initial_buildings_placed, longest_road_owner,
                   longest_road_length, finished, winner, horizon,
                   free_builds, turn_rolls, roll_stack>>

RollSeven ==
    /\ pc = "roll_dice"
    /\ \E pair \in {q \in DicePairs : q[1] + q[2] = 7} :
           IF Len(roll_stack) + 1 < RecursionLimit
           THEN roll_stack' = Append(roll_stack, pair) /\ pc' = pc
           ELSE roll_stack' = <<>> /\ pc' = "RecursionError"
    /\ UNCHANGED <<occupant, owner, resources, built, current_player_id,
                   turn_number, last_roll, initial_buildings_placed,
                   longest_road_owner, longest_road_length, finished, winner,
                   horizon, free_builds, turn_rolls, action, success>>

RollOther ==
    /\ pc = "roll_dice"
    /\ \E pair \in {q \in DicePairs : q[1] + q[2] # 7} :
           LET roll == roll_stack \o <<pair>>
           IN  /\ resources' = distribute_resources(G, roll).resources
               /\ last_roll' = roll
    /\ pc' = "idle"
    /\ roll_stack' = <<>>
    /\ success' = TRUE
    /\ UNCHANGED <<occupant, owner, built, current_player_id, turn_number,
                   initial_buildings_placed, longest_road_owner,
                   longest_road_length, finished, winner, horizon,
                   free_builds, turn_rolls, action>>

RollEndTurn ==
    /\ pc = "idle"
    /\ EndTurn

RollNext ==
    \/ CallStartTurn
    \/ RollSeven
    \/ RollOther
    \/ RollEndTurn

(* A pair that does not sum to 7 is drawn in the end by a call that keeps  *)
(* drawing.                                                                *)
RollSpec == RollInit /\ [][RollNext]_vars /\ WF_vars(RollOther)

(* C35: with a pair not summing to 7 drawn in the end, roll_dice           *)
(* terminates: every start_turn that has begun to roll returns.            *)
C35_StartTurnReturns == (pc = "roll_dice") ~> (pc = "idle")

-----------------------------------------------------------------------------
(* Properties of every reachable state. *)

(* C36: for each player the settlements count is the number of positions   *)
(* holding the player's settlement, the cities count the number holding    *)
(* the player's city, and the roads count the number of edges the player   *)
(* owns.                                                                   *)
C36_CountsMatchTheBoard ==
    \A p \in Players :
        /\ built[p].settlements = Cardinality({n \in Nodes : occupant[n] = p})
        /\ built[p].cities = Cardinality({n \in Nodes : occupant[n] = p + 2})
        /\ built[p].roads = Cardinality({r \in Roads : owner[r] = p})

(* A road has just been built, the last one the player may build, with     *)
(* settlements and cities of both players on the board.                    *)
C36_Witness ==
    /\ action = "build_road" /\ success /\ ~finished
    /\ built[current_player_id].roads = MAX_ROADS
    /\ \A p \in Players : built[p].settlements >= 1 /\ built[p].cities >= 1

(* C37: in every reachable state, whichever action came last, the title is *)
(* with the player the title rule names for the lengths computed from the  *)
(* current board, and the threshold longest_road_length is 5.              *)
C37_TitleIsAlwaysCurrent ==
    /\ longest_road_owner = TitleHolder
    /\ longest_road_length = 5

(* A city has just been built while both players' roads reach the          *)
(* threshold with equal lengths and nobody holds the title.                *)
C37_Witness ==
    /\ action = "build_city" /\ success
    /\ longest_road_owner = 0
    /\ compute_longest_road_for_player(G, 1) >= 5
    /\ compute_longest_road_for_player(G, 2) >= 5

(* C38: a build_settlement, build_city, build_road, trade_bank or end_turn *)
(* call changes neither the resources nor the structure counts of the      *)
(* player who is not acting, nor the occupant of a position or the owner   *)
(* of an edge that player holds.                                           *)
C38_OtherPlayerUntouched ==
    [][action' \in BuildKinds \cup {"trade_bank", "end_turn"} =>
          LET other == 3 - current_player_id
          IN  /\ resources'[other] = resources[other]
              /\ built'[other] = built[other]
              /\ \A n \in Held(other) : occupant'[n] = occupant[n]
              /\ \A r \in OwnedRoads(other) : owner'[r] = owner[r]]_vars

(* A bank trade has succeeded while the other player holds resources,      *)
(* positions and roads.                                                    *)
C38_Witness ==
    /\ action = "trade_bank" /\ success
    /\ \E r \in Resources : resources[3 - current_player_id][r] > 0
    /\ Held(3 - current_player_id) # {}
    /\ OwnedRoads(3 - current_player_id) # {}

(* C39: once finished is true it stays true; finished is true only when    *)
(* some player has at least 5 settlements, 4 cities and 15 roads; and      *)
(* while finished is false the winner is 0.                                *)
C39_FinishedIsFinalAndEarned ==
    /\ []((finished => \E p \in Players : Capped(p))
          /\ (~finished => winner = 0))
    /\ [][finished => finished']_vars

(* The game is finished with a winner and a later end_turn was refused.    *)
C39_Witness ==
    /\ finished /\ winner # 0
    /\ action = "end_turn" /\ success = FALSE

====
